---- MODULE Spec2Model ----
(***************************************************************************)
(* Model of the resume analysis pipeline of resume-analyzer-backend:       *)
(*   parseResume   (utils/fileParser, text extraction)                     *)
(*   analyzeResume (utils/aiAnalyzer, two-tier backend call + decoding)    *)
(*   uploadResume, getMyResumes, getResumeById, deleteResume               *)
(*                 (controllers/resumeController, the record lifecycle)    *)
(*   getMatchedJobsForResume (controllers/jobController)                   *)
(* Every `await` of uploadResume is one step of an upload request, so      *)
(* requests interleave exactly where the event loop can interleave them.   *)
(***************************************************************************)
EXTENDS Integers, Sequences, FiniteSets, TLC

(***************************************************************************)
(* Bounds of the model.                                                    *)
(***************************************************************************)
\* number of uploadResume requests (they may run concurrently)
MaxUploads == 2
\* number of analyzeResume calls made in a row
MaxCalls == 2
\* length of the raw texts the whitespace normalization is run on
MaxTextLen == 4
\* the skills of a record, the skills a listing names
MaxSkills == 40

(***************************************************************************)
(* Program constants.                                                      *)
(***************************************************************************)
\* fileParser: `extractedText.length < 50`
MinTextLength == 50
\* Resume.js: analysis.matchScore { min: 0, max: 100 }
ScoreMin == 0
ScoreMax == 100
\* aiAnalyzer.js: `text.substring(0, 500)`
ExcerptLength == 500

\* JavaScript `undefined` for a string-valued property
Undefined == "<undefined>"
\* "no record" / "no id"
NoId == 0

Users == {"alice", "bob"}
UploadIds == 1..MaxUploads
RecordIds == 1..MaxUploads

(***************************************************************************)
(* State.                                                                  *)
(*   up[u]    the uploadResume request u: its position (pc), its user, the *)
(*            file it was given, the locals extractedText, resume (the     *)
(*            in-memory document: its id, analysis and status), the        *)
(*            analyzeResume call it awaits (an), the error it caught, and  *)
(*            its response (res)                                           *)
(*   store    the resumes collection: record id -> stored document         *)
(*   files    the uploads/ directory: requests whose temporary file exists *)
(*   unlinked requests for whose file fs.unlink was called                 *)
(*   reply    the response to the latest read, delete or match request:    *)
(*            its status code, whether it carries record data, and whether *)
(*            matchJobsWithResume was run for it                           *)
(*   call, given, ncalls   analyzeResume called on its own: the call, the  *)
(*            backend outcomes it was given (and whether the call before   *)
(*            it used the fallback), the number of calls begun             *)
(*   parsed   parseResume called on its own: the extension of the file,    *)
(*            what its extractor yields on it, the extractor invoked, the  *)
(*            local extractedText and the error thrown                     *)
(*   auth     the accounts: the users collection (email -> role, and how   *)
(*            that role was set), the accounts that hold a valid token,    *)
(*            and the latest request to an admin route                     *)
(*   match    matchJobsWithResume called on its own: the record, the       *)
(*            skills extracted, the query, the credentials and the outcome *)
(*            of the job-search backend, whether it was called, the        *)
(*            listings fetched and the listings returned                   *)
(***************************************************************************)
VARIABLES up, store, files, unlinked, reply, call, given, ncalls, parsed, auth, match

lifecycleVars == <<up, store, files, unlinked, reply>>
analyzeVars == <<call, given, ncalls>>
parseVars == <<parsed>>
authVars == <<auth>>
matchVars == <<match>>
vars == <<up, store, files, unlinked, reply, call, given, ncalls, parsed, auth, match>>

(***************************************************************************)
(* Strings are sequences of characters; error messages are sequences of    *)
(* fragments, and String.prototype.includes(marker) is the occurrence of   *)
(* the marker fragment in the message.                                     *)
(***************************************************************************)
Rep(c, n) == [i \in 1..n |-> c]

Includes(msg, marker) == \E i \in 1..Len(msg) : msg[i] = marker

\* /\s/ of the characters the model uses
IsSpace(c) == c \in {" ", "\n", "\t"}

\* variant: the extension is compared as it is written
ToLowerCaseSame(ext) == ext

\* String.prototype.toLowerCase on the extensions the model uses
ToLowerCase(ext) ==
  CASE ext = ".PDF" -> ".pdf"
    [] ext = ".Pdf" -> ".pdf"
    [] ext = ".DOCX" -> ".docx"
    [] ext = ".TXT" -> ".txt"
    [] OTHER -> ext

\* variant: every whitespace character becomes a space, runs are kept
ReplaceEachWhitespace(s) == [i \in 1..Len(s) |-> IF IsSpace(s[i]) THEN " " ELSE s[i]]

\* s.replace(/\s+/g, ' '): every maximal run of whitespace becomes one space
RECURSIVE CollapseWhitespace(_)
CollapseWhitespace(s) ==
  IF s = <<>> THEN <<>>
  ELSE IF IsSpace(Head(s))
       THEN IF Len(s) > 1 /\ IsSpace(s[2])
            THEN CollapseWhitespace(Tail(s))
            ELSE <<" ">> \o CollapseWhitespace(Tail(s))
       ELSE <<Head(s)>> \o CollapseWhitespace(Tail(s))

RECURSIVE TrimStart(_)
TrimStart(s) ==
  IF s # <<>> /\ IsSpace(Head(s)) THEN TrimStart(Tail(s)) ELSE s

RECURSIVE TrimEnd(_)
TrimEnd(s) ==
  IF s # <<>> /\ IsSpace(s[Len(s)]) THEN TrimEnd(SubSeq(s, 1, Len(s) - 1)) ELSE s

\* String.prototype.trim
Trim(s) == TrimEnd(TrimStart(s))

\* fileParser: extractedText.replace(/\s+/g, ' ').trim()
NormalizeText(s) == Trim(CollapseWhitespace(s))

(***************************************************************************)
(* parseResume.  The extractor (pdf-parse / mammoth) either fails with a   *)
(* message or yields raw text; `ex` is that outcome.                       *)
(***************************************************************************)
Thrown(m) == [ok |-> FALSE, msg |-> m, text |-> <<>>]
Returned(t) == [ok |-> TRUE, msg |-> <<>>, text |-> t]

UnsupportedFormatMsg == <<"Unsupported file format. Only PDF and DOCX are allowed.">>
TextTooShortMsg == <<"Could not extract meaningful text from the file.">>

\* variant: the extractor's error is rethrown as it is
parsePDFRethrows(ex) == IF ex.ok THEN Returned(ex.text) ELSE Thrown(ex.msg)

parsePDF(ex) ==
  IF ex.ok THEN Returned(ex.text) ELSE Thrown(<<"PDF parsing failed: ">> \o ex.msg)

parseDOCX(ex) ==
  IF ex.ok THEN Returned(ex.text) ELSE Thrown(<<"DOCX parsing failed: ">> \o ex.msg)

\* parseResume: the extractor the switch on the extension invokes
Dispatch(fileExt) ==
  LET ext == ToLowerCase(fileExt)
  IN CASE ext = ".pdf" -> "parsePDF"
       [] ext = ".docx" -> "parseDOCX"
       [] OTHER -> "none"

\* variant: no minimum length of the extracted text
parseResumeAnyLength(fileExt, ex) ==
  LET ext == ToLowerCase(fileExt)
      raw == CASE ext = ".pdf" -> parsePDF(ex)
               [] ext = ".docx" -> parseDOCX(ex)
               [] OTHER -> Thrown(UnsupportedFormatMsg)
  IN IF ~raw.ok THEN raw ELSE Returned(NormalizeText(raw.text))

parseResume(fileExt, ex) ==
  LET ext == ToLowerCase(fileExt)
      raw == CASE ext = ".pdf" -> parsePDF(ex)
               [] ext = ".docx" -> parseDOCX(ex)
               [] OTHER -> Thrown(UnsupportedFormatMsg)
  IN IF ~raw.ok THEN raw
     ELSE LET extractedText == NormalizeText(raw.text)
          IN IF extractedText = <<>> \/ Len(extractedText) < MinTextLength
             THEN Thrown(TextTooShortMsg)
             ELSE Returned(extractedText)

\* extensions of uploaded files, by what the parser is to do with them
SupportedExts == {".pdf", ".PDF", ".docx"}
UnsupportedExts == {".txt"}
FileExts == SupportedExts \cup UnsupportedExts

\* outcomes of the extractor: it throws, it yields text that normalizes to
\* fewer than 50 characters (empty, blank, 30 and 49 characters), or text
\* that normalizes to 50 characters
ThrowingExtractions == {Thrown(<<"bad XRef entry">>)}
ShortExtractions ==
  { Returned(<<>>),
    Returned(Rep("\n", 3)),
    Returned(Rep("a", 30)),
    Returned(<<" ">> \o Rep("a", 49) \o <<"\n">>) }
GoodExtractions ==
  { Returned(<<"\n">> \o Rep("a", 25) \o <<" ", "\n", " ">> \o Rep("a", 24)) }
ExtractorOutcomes == ThrowingExtractions \cup ShortExtractions \cup GoodExtractions

\* what an upload was given: whether the extension is a supported one, and
\* the class of the extractor's outcome
FileGiven(ext, ex) ==
  [supported |-> ext \in SupportedExts,
   extraction |-> IF ex \in ThrowingExtractions THEN "throws"
                  ELSE IF ex \in ShortExtractions THEN "short" ELSE "good"]
NoFileGiven == [supported |-> FALSE, extraction |-> "none"]

(***************************************************************************)
(* analyzeResume: the generative-text backend and its errors.              *)
(***************************************************************************)
\* messages the backend's generateContent / response.text() can throw
BackendErrors ==
  { <<"[429 Too Many Requests]", "429">>,
    <<"You exceeded your current ", "quota">>,
    <<"RESOURCE_EXHAUSTED">>,
    <<"API key", " not valid">>,
    <<"fetch failed">> }

\* aiAnalyzer.js: the condition of the catch around the trial call
IsQuotaSignal(msg) == Includes(msg, "429") \/ Includes(msg, "quota")

AuthFailureMsg == <<"Invalid or missing Gemini API key. Check your .env file.">>
QuotaExceededMsg == <<"Gemini API quota exceeded. Please try again later.">>
InvalidJSONMsg == <<"AI returned invalid JSON response">>

\* variant: the outer catch rethrows the error as it caught it
ClassifyErrorRaw(msg) == msg

\* aiAnalyzer.js: the outer catch of analyzeResume
ClassifyError(msg) ==
  IF Includes(msg, "API key") \/ Includes(msg, "API_KEY_INVALID")
  THEN AuthFailureMsg
  ELSE IF Includes(msg, "quota") \/ Includes(msg, "RESOURCE_EXHAUSTED")
       THEN QuotaExceededMsg
       ELSE <<"AI analysis failed: ">> \o msg

(***************************************************************************)
(* The raw reply is a sequence of tokens: Fence (three backticks), "json"   *)
(* (the tag), " " and "\n" (whitespace), "DOC" (the text of one JSON       *)
(* value, kept beside the text) and any other token (prose).               *)
(***************************************************************************)
\* the three backticks of a Markdown code fence
Fence == "<fence>"

\* first index >= i of a fence in text, or 0
NextFence(text, i) ==
  IF \E k \in i..Len(text) : text[k] = Fence
  THEN CHOOSE k \in i..Len(text) :
         text[k] = Fence /\ \A j \in i..(k - 1) : text[j] # Fence
  ELSE 0

RECURSIVE SkipSpace(_, _)
SkipSpace(text, i) ==
  IF i <= Len(text) /\ IsSpace(text[i]) THEN SkipSpace(text, i + 1) ELSE i

\* text.match(/```(?:json)?\s*([\s\S]*?)```/): the capture group of the
\* leftmost match, or no match
FenceMatch(text) ==
  LET open == NextFence(text, 1)
      close0 == IF open = 0 THEN 0 ELSE NextFence(text, open + 1)
  IN IF open = 0 \/ close0 = 0
     THEN [matched |-> FALSE, group |-> <<>>]
     ELSE LET afterTag == IF open + 1 <= Len(text) /\ text[open + 1] = "json"
                          THEN open + 2 ELSE open + 1
              start == SkipSpace(text, afterTag)
              close == NextFence(text, start)
          IN [matched |-> TRUE, group |-> SubSeq(text, start, close - 1)]

\* aiAnalyzer.js: `if (useGemma) { ... text = jsonMatch[1].trim() }`
ExtractReplyText(useGemma, text) ==
  IF useGemma /\ FenceMatch(text).matched
  THEN Trim(FenceMatch(text).group)
  ELSE text

\* JSON.parse(text): whitespace around one JSON value is accepted.  "DOC" is
\* the text of a JSON value that holds no backtick; "{" ... "}" is the text
\* of a JSON object, the tokens between the two being the characters of a
\* string it holds (a raw newline is not allowed in a JSON string)
JSONParses(text) ==
  LET t == Trim(text)
  IN \/ t = <<"DOC">>
     \/ /\ Len(t) >= 2 /\ t[1] = "{" /\ t[Len(t)] = "}"
        /\ \A i \in 2..(Len(t) - 1) : t[i] \notin {"{", "}", "\n", "DOC"}

(***************************************************************************)
(* Parsed JSON values.                                                     *)
(***************************************************************************)
AbsentScore == [kind |-> "absent", n |-> 0]
Num(n) == [kind |-> "num", n |-> n]
\* a non-empty, non-numeric string
StrScore == [kind |-> "str", n |-> 0]

AbsentBucket == [present |-> FALSE, items |-> <<>>]
Bucket(items) == [present |-> TRUE, items |-> items]
AbsentSection ==
  [present |-> FALSE, hardSkills |-> AbsentBucket, softSkills |-> AbsentBucket,
   certifications |-> AbsentBucket]
Section(h, s, c) ==
  [present |-> TRUE, hardSkills |-> h, softSkills |-> s, certifications |-> c]

NullTip == [isNull |-> TRUE, category |-> Undefined, suggestion |-> Undefined,
            priority |-> Undefined]
Tip(c, s, p) == [isNull |-> FALSE, category |-> c, suggestion |-> s, priority |-> p]
AbsentTips == [kind |-> "absent", items |-> <<>>]
TipList(items) == [kind |-> "list", items |-> items]
\* a truthy value that is no array (a string, an object)
OtherTips == [kind |-> "other", items |-> <<>>]

JSONNull ==
  [isNull |-> TRUE, matchScore |-> AbsentScore, missingKeywords |-> AbsentSection,
   foundKeywords |-> AbsentSection, actionableTips |-> AbsentTips,
   summary |-> Undefined]
JSONObject(score, missing, found, tips, summary) ==
  [isNull |-> FALSE, matchScore |-> score, missingKeywords |-> missing,
   foundKeywords |-> found, actionableTips |-> tips, summary |-> summary]

ValidCategories == {"formatting", "content", "keywords", "impact", "structure"}
ValidPriorities == {"high", "medium", "low"}

\* aiAnalyzer.js: `x?.bucket || []`
BucketOrEmpty(section, bucket) ==
  IF section.present /\ section[bucket].present THEN section[bucket].items ELSE <<>>

KeywordsOf(section) ==
  [hardSkills |-> BucketOrEmpty(section, "hardSkills"),
   softSkills |-> BucketOrEmpty(section, "softSkills"),
   certifications |-> BucketOrEmpty(section, "certifications")]

\* aiAnalyzer.js: `aiResponse.matchScore || 0`
ScoreOrZero(score) ==
  IF score.kind = "absent" \/ (score.kind = "num" /\ score.n = 0) THEN Num(0) ELSE score

\* variant: the category of a tip is passed through
CoerceTipKeepCategory(tip) ==
  [category |-> tip.category, suggestion |-> tip.suggestion, priority |-> tip.priority]

\* aiAnalyzer.js: the callback of actionableTips.map
CoerceTip(tip) ==
  [category |-> IF tip.category \in ValidCategories THEN tip.category ELSE "content",
   suggestion |-> tip.suggestion,
   priority |-> tip.priority]

\* the values of the nested `analysis` path a new document gets (Resume.js)
DefaultAnalysis ==
  [matchScore |-> Num(0),
   missingKeywords |-> KeywordsOf(AbsentSection),
   foundKeywords |-> KeywordsOf(AbsentSection),
   actionableTips |-> <<>>,
   aiSummary |-> ""]

Failed(m) == [ok |-> FALSE, msg |-> m, value |-> DefaultAnalysis]
Succeeded(v) == [ok |-> TRUE, msg |-> <<>>, value |-> v]

\* aiAnalyzer.js: "Structure response to match our Resume model"; reading a
\* property of null and calling .map on a non-array throw a TypeError
StructureResponse(aiResponse) ==
  IF aiResponse.isNull
  THEN Failed(<<"Cannot read properties of null (reading matchScore)">>)
  ELSE IF aiResponse.actionableTips.kind = "other"
  THEN Failed(<<"(aiResponse.actionableTips || []).map is not a function">>)
  ELSE IF \E i \in 1..Len(aiResponse.actionableTips.items) :
            aiResponse.actionableTips.items[i].isNull
  THEN Failed(<<"Cannot read properties of null (reading category)">>)
  ELSE Succeeded(
    [matchScore |-> ScoreOrZero(aiResponse.matchScore),
     missingKeywords |-> KeywordsOf(aiResponse.missingKeywords),
     foundKeywords |-> KeywordsOf(aiResponse.foundKeywords),
     actionableTips |->
       [i \in 1..Len(aiResponse.actionableTips.items) |->
          CoerceTip(aiResponse.actionableTips.items[i])],
     aiSummary |-> IF aiResponse.summary \in {Undefined, ""} THEN "" ELSE aiResponse.summary])

\* variant: the whole text is logged
ExcerptWhole(text) == text

\* aiAnalyzer.js: `text.substring(0, 500)`, what the catch around JSON.parse
\* writes to the log (a token of a reply counts as one character)
Excerpt(text) ==
  SubSeq(text, 1, IF Len(text) < ExcerptLength THEN Len(text) ELSE ExcerptLength)

\* aiAnalyzer.js: from the raw reply of the actual request to the value
\* analyzeResume returns or the error its try block raises
DecodeReply(useGemma, text, doc) ==
  IF JSONParses(ExtractReplyText(useGemma, text))
  THEN StructureResponse(doc)
  ELSE Failed(InvalidJSONMsg)

\* replies of the backend: the raw text and the JSON value "DOC" stands for
ReplyTexts ==
  { <<"DOC">>,
    <<"\n", "DOC", "\n">>,
    <<Fence, "json", "\n", "DOC", "\n", Fence>>,
    <<Fence, "DOC", Fence>>,
    <<"Here is the analysis:", "\n", Fence, "json", "\n", "DOC", Fence, "\n">>,
    <<Fence, "json", "\n", "DOC">>,
    <<"I cannot analyze this.">>,
    <<"{", Fence, "bash", Fence, "}">>,
    Rep("x", ExcerptLength + 1),
    <<Fence, "json", "\n", "{", Fence, "bash", Fence, "}", "\n", Fence>> }

ReplyDocs ==
  { JSONObject(Num(85),
               Section(Bucket(<<"Docker">>), Bucket(<<>>), AbsentBucket),
               Section(Bucket(<<"React", "Node.js">>), Bucket(<<"Teamwork">>), Bucket(<<>>)),
               TipList(<<Tip("impact", "Quantify results", "high"),
                         Tip("style", "Use bullets", Undefined)>>),
               "Solid resume"),
    JSONObject(AbsentScore, AbsentSection, AbsentSection, AbsentTips, Undefined),
    JSONObject(Num(150), AbsentSection, AbsentSection, TipList(<<>>), ""),
    JSONObject(StrScore, AbsentSection, AbsentSection, AbsentTips, Undefined),
    JSONObject(Num(70), AbsentSection, AbsentSection,
               TipList(<<Tip(Undefined, "Add keywords", "urgent")>>), "ok"),
    JSONObject(Num(60), AbsentSection, AbsentSection, OtherTips, "ok"),
    JSONObject(Num(60), AbsentSection, AbsentSection, TipList(<<NullTip>>), "ok"),
    JSONNull }

(***************************************************************************)
(* The Resume schema (models/Resume.js): what a save validates and what a  *)
(* validated document stores.                                              *)
(***************************************************************************)
\* matchScore: Number with min 0, max 100; a non-numeric string is a CastError
ValidScore(score) == score.kind = "num" /\ score.n >= ScoreMin /\ score.n <= ScoreMax

\* actionableTips[]: category and priority are enum strings, not required
ValidTip(tip) ==
  /\ tip.category \in ValidCategories \cup {Undefined}
  /\ tip.priority \in ValidPriorities \cup {Undefined}

ValidateAnalysis(analysis) ==
  /\ ValidScore(analysis.matchScore)
  /\ \A i \in 1..Len(analysis.actionableTips) : ValidTip(analysis.actionableTips[i])

\* priority: { default: 'medium' }
CastTip(tip) ==
  [tip EXCEPT !.priority = IF @ = Undefined THEN "medium" ELSE @]

CastAnalysis(analysis) ==
  [analysis EXCEPT !.actionableTips =
     [i \in 1..Len(analysis.actionableTips) |-> CastTip(analysis.actionableTips[i])]]

(***************************************************************************)
(* analyzeResume as a state machine: one step per await.  A call is        *)
(*   pc       "trial" | "actual" | "returned" | "threw"                    *)
(*   useGemma the local flag                                               *)
(*   calls    the backend invocations made so far, <<tier, kind>> each     *)
(*   value    the returned analysis; error: the message of the thrown error*)
(*   logged   what console.error printed of a reply JSON.parse rejected    *)
(***************************************************************************)
NoError == <<>>
Call(tier, kind) == [tier |-> tier, kind |-> kind]

NoCall ==
  [pc |-> "none", useGemma |-> FALSE, calls |-> <<>>, value |-> DefaultAnalysis,
   error |-> NoError, logged |-> <<>>]

\* variant: the fallback chosen by the call before is kept and its trial skipped
AnalyzeBeginCached ==
  [NoCall EXCEPT !.pc = IF call.useGemma THEN "actual" ELSE "trial",
                 !.useGemma = call.useGemma]

\* `let model; let useGemma = false;` and the primary model of the trial call
AnalyzeBegin == [NoCall EXCEPT !.pc = "trial"]

\* the outer catch of analyzeResume rethrows the classified error
AnalyzeThrow(a, msg) == [a EXCEPT !.pc = "threw", !.error = ClassifyError(msg)]

\* variant: every failure of the trial call switches to the fallback
TrialCallAlwaysFallsBack(a, thrown) ==
  LET called == [a EXCEPT !.calls = Append(@, Call("primary", "trial"))]
  IN IF thrown = NoError THEN [called EXCEPT !.pc = "actual"]
     ELSE [called EXCEPT !.pc = "actual", !.useGemma = TRUE]

\* the trial call `model.generateContent('respond with: {"test":true}')` on
\* the primary model and the catch (quotaError) around it; `thrown` is the
\* message the call throws, NoError when it succeeds
TrialCall(a, thrown) ==
  LET called == [a EXCEPT !.calls = Append(@, Call("primary", "trial"))]
  IN IF thrown = NoError THEN [called EXCEPT !.pc = "actual"]
     ELSE IF IsQuotaSignal(thrown)
          THEN [called EXCEPT !.pc = "actual", !.useGemma = TRUE]
          ELSE AnalyzeThrow(called, thrown)

\* the model the actual request goes to
ModelTier(useGemma) == IF useGemma THEN "fallback" ELSE "primary"

\* an outcome of the actual request: a thrown message, or a reply
BackendThrew(m) == [thrown |-> m, text |-> <<>>, doc |-> JSONNull]
BackendReplied(text, doc) == [thrown |-> NoError, text |-> text, doc |-> doc]

\* variant: an actual request that fails for quota on the primary model is
\* repeated on the fallback model
ActualCallRetried(a, outcome) ==
  LET once == [a EXCEPT !.calls = Append(@, Call(ModelTier(a.useGemma), "actual"))]
      called == IF outcome.thrown # NoError /\ IsQuotaSignal(outcome.thrown) /\ ~a.useGemma
                THEN [once EXCEPT !.calls = Append(@, Call("fallback", "actual"))]
                ELSE once
      text == ExtractReplyText(a.useGemma, outcome.text)
      r == DecodeReply(a.useGemma, outcome.text, outcome.doc)
  IN IF outcome.thrown # NoError THEN AnalyzeThrow(called, outcome.thrown)
     ELSE IF r.ok THEN [called EXCEPT !.pc = "returned", !.value = r.value]
     ELSE IF JSONParses(text) THEN AnalyzeThrow(called, r.msg)
     ELSE AnalyzeThrow([called EXCEPT !.logged = Excerpt(text)], r.msg)

\* the actual request `model.generateContent(prompt)`, then fence stripping,
\* JSON.parse and the structuring of the result
ActualCall(a, outcome) ==
  LET called == [a EXCEPT !.calls = Append(@, Call(ModelTier(a.useGemma), "actual"))]
      text == ExtractReplyText(a.useGemma, outcome.text)
      r == DecodeReply(a.useGemma, outcome.text, outcome.doc)
  IN IF outcome.thrown # NoError THEN AnalyzeThrow(called, outcome.thrown)
     ELSE IF r.ok THEN [called EXCEPT !.pc = "returned", !.value = r.value]
     ELSE IF JSONParses(text) THEN AnalyzeThrow(called, r.msg)
     ELSE AnalyzeThrow([called EXCEPT !.logged = Excerpt(text)], r.msg)

TrialOutcomes == {NoError} \cup BackendErrors

ActualOutcomes ==
  {BackendThrew(m) : m \in BackendErrors}
    \cup {BackendReplied(text, doc) : text \in ReplyTexts, doc \in ReplyDocs}

NoResponse == [code |-> 0, error |-> NoError]
Response(code, error) == [code |-> code, error |-> error]
NoReply == [code |-> 0, data |-> FALSE, matched |-> FALSE]

StoreErrorMsg == <<"MongoNetworkError: connection closed">>
ValidationErrorMsg == <<"Resume validation failed">>
DocumentNotFoundMsg == <<"No document found for query">>

\* no parseResume call yet
NoParse ==
  [pc |-> "none", ext |-> "", ex |-> Returned(<<>>), invoked |-> "none",
   extractedText |-> <<>>, error |-> NoError]

(***************************************************************************)
(* Job matching: services/jobService.js.  A text (a skill, a title, a      *)
(* description, a query) is its sequence of characters.                    *)
(***************************************************************************)
\* the letters toLowerCase changes, and what it makes of them
Letters ==
  [upper |->
     <<"A", "B", "C", "D", "E", "F", "G", "H", "I", "J", "K", "L", "M", "N",
       "O", "P", "Q", "R", "S", "T", "U", "V", "W", "X", "Y", "Z">>,
   lower |->
     <<"a", "b", "c", "d", "e", "f", "g", "h", "i", "j", "k", "l", "m", "n",
       "o", "p", "q", "r", "s", "t", "u", "v", "w", "x", "y", "z">>]

\* String.prototype.toLowerCase, character by character
LowerChar(c) ==
  IF \E i \in 1..26 : Letters.upper[i] = c
  THEN Letters.lower[CHOOSE i \in 1..26 : Letters.upper[i] = c]
  ELSE c
ToLowerCaseText(text) == [i \in 1..Len(text) |-> LowerChar(text[i])]

\* String.prototype.includes: `part` occurs in `text` at some offset
IncludesText(text, part) ==
  \E i \in 0..(Len(text) - Len(part)) : \A j \in 1..Len(part) : text[i + j] = part[j]

\* Array.prototype.join(' ')
RECURSIVE JoinWords(_)
JoinWords(words) ==
  IF words = <<>> THEN <<>>
  ELSE IF Len(words) = 1 THEN words[1]
  ELSE words[1] \o <<" ">> \o JoinWords(Tail(words))

\* Array.prototype.includes
IncludesItem(list, item) == \E i \in 1..Len(list) : list[i] = item

(***************************************************************************)
(* Number arithmetic.  A JavaScript number is an IEEE-754 double: a        *)
(* positive one is mant * 2^exp with a significand mant of 53 bits, kept   *)
(* here as its bits, least significant first.  Every operation yields the  *)
(* double nearest to the exact result, ties to the even significand.       *)
(***************************************************************************)
Bit(bits, i) == IF i \in 1..Len(bits) THEN bits[i] ELSE 0

RECURSIVE BitsValue(_)
BitsValue(bits) == IF bits = <<>> THEN 0 ELSE Head(bits) + 2 * BitsValue(Tail(bits))

\* the carry into bit i of a + b: some lower bit j makes one (both bits
\* set) and every bit between j and i passes it on (one of the bits set)
CarryInto(a, b, i) ==
  IF \E j \in 1..(i - 1) :
       /\ Bit(a, j) + Bit(b, j) = 2
       /\ \A k \in (j + 1)..(i - 1) : Bit(a, k) + Bit(b, k) >= 1
  THEN 1 ELSE 0

BitLength(bits) ==
  IF \E i \in 1..Len(bits) : bits[i] = 1
  THEN CHOOSE i \in 1..Len(bits) : bits[i] = 1 /\ \A j \in (i + 1)..Len(bits) : bits[j] = 0
  ELSE 0

\* a + b, without leading zeros
AddBits(a, b) ==
  LET sum == [i \in 1..((IF Len(a) > Len(b) THEN Len(a) ELSE Len(b)) + 1) |->
                (Bit(a, i) + Bit(b, i) + CarryInto(a, b, i)) % 2]
  IN SubSeq(sum, 1, BitLength(sum))

ShiftLeft(bits, k) == [i \in 1..(Len(bits) + k) |-> IF i <= k THEN 0 ELSE bits[i - k]]

\* the exact value bits * 2^exp as a double: the 53 leading bits, rounded to
\* nearest by the bits dropped, ties to even
RoundToDouble(bits, exp, sticky) ==
  LET n == BitLength(bits)
      d == n - 53
      kept == SubSeq(bits, d + 1, n)
      rest == sticky \/ \E i \in 1..(d - 1) : bits[i] = 1
      roundUp == d >= 1 /\ bits[d] = 1 /\ (rest \/ kept[1] = 1)
      mant == IF roundUp THEN AddBits(kept, <<1>>) ELSE kept
  IN IF d <= 0 THEN [mant |-> ShiftLeft(SubSeq(bits, 1, n), 0 - d), exp |-> exp + d]
     ELSE IF Len(mant) > 53 THEN [mant |-> SubSeq(mant, 2, 54), exp |-> exp + d + 1]
     ELSE [mant |-> mant, exp |-> exp + d]

\* 2^i modulo t, for i <= 54
PowerOf2Mod(i, t) == ((2^(i \div 2) % t) * (2^(i - i \div 2) % t)) % t

\* long division of r by t (r < t): the remainder after i bits of the
\* quotient, r * 2^i modulo t
RemainderAfter(r, t, i) == (r * PowerOf2Mod(i, t)) % t

\* m / t for 0 < m <= t: the leading bit of the quotient and the 54 bits
\* after it by long division, rounded to 53 (what is beyond the 55 bits is
\* in the remainder)
DoubleDivide(m, t) ==
  LET k == CHOOSE k \in 0..30 : m * 2^k >= t /\ (k = 0 \/ m * 2^(k - 1) < t)
      r == m * 2^k - t
      bits == [i \in 1..55 |->
                 IF i = 55 \/ 2 * RemainderAfter(r, t, 54 - i) >= t THEN 1 ELSE 0]
  IN RoundToDouble(bits, 0 - (k + 54), RemainderAfter(r, t, 54) # 0)

\* x * 100, 100 = 2^6 + 2^5 + 2^2
DoubleTimes100(x) ==
  RoundToDouble(AddBits(AddBits(ShiftLeft(x.mant, 6), ShiftLeft(x.mant, 5)),
                        ShiftLeft(x.mant, 2)),
                x.exp, FALSE)

\* Math.round of a positive double below 2^31: the nearest integer, a half
\* rounds up
MathRound(x) ==
  IF x.exp >= 0 THEN BitsValue(x.mant) * 2^x.exp
  ELSE BitsValue(SubSeq(x.mant, 1 - x.exp, Len(x.mant))) + Bit(x.mant, 0 - x.exp)

(***************************************************************************)
(* The job service.                                                        *)
(***************************************************************************)
\* a listing as fetchJobsFromAPI returns it (the fields matching reads)
Job(id, title, description, source) ==
  [id |-> id, title |-> title, description |-> description, source |-> source]

\* getMockJobs: the fixed catalog
GetMockJobs ==
  << Job("mock-1",
       <<"F", "r", "o", "n", "t", "e", "n", "d", " ", "D", "e", "v", "e", "l", "o",
         "p", "e", "r">>,
       <<"W", "e", " ", "a", "r", "e", " ", "l", "o", "o", "k", "i", "n", "g", " ",
         "f", "o", "r", " ", "a", " ", "F", "r", "o", "n", "t", "e", "n", "d", " ",
         "D", "e", "v", "e", "l", "o", "p", "e", "r", " ", "w", "i", "t", "h", " ",
         "e", "x", "p", "e", "r", "i", "e", "n", "c", "e", " ", "i", "n", " ", "R",
         "e", "a", "c", "t", ",", " ", "J", "a", "v", "a", "S", "c", "r", "i", "p",
         "t", ",", " ", "H", "T", "M", "L", ",", " ", "C", "S", "S", ".", " ", "M",
         "u", "s", "t", " ", "h", "a", "v", "e", " ", "s", "t", "r", "o", "n", "g",
         " ", "p", "r", "o", "b", "l", "e", "m", "-", "s", "o", "l", "v", "i", "n",
         "g", " ", "s", "k", "i", "l", "l", "s", ".">>,
       "Mock"),
     Job("mock-2",
       <<"F", "u", "l", "l", " ", "S", "t", "a", "c", "k", " ", "D", "e", "v", "e",
         "l", "o", "p", "e", "r">>,
       <<"F", "u", "l", "l", " ", "S", "t", "a", "c", "k", " ", "D", "e", "v", "e",
         "l", "o", "p", "e", "r", " ", "n", "e", "e", "d", "e", "d", ".", " ", "S",
         "k", "i", "l", "l", "s", ":", " ", "N", "o", "d", "e", ".", "j", "s", ",",
         " ", "R", "e", "a", "c", "t", ",", " ", "M", "o", "n", "g", "o", "D", "B",
         ",", " ", "E", "x", "p", "r", "e", "s", "s", ".", " ", "E", "x", "p", "e",
         "r", "i", "e", "n", "c", "e", " ", "w", "i", "t", "h", " ", "R", "E", "S",
         "T", " ", "A", "P", "I", "s", " ", "a", "n", "d", " ", "c", "l", "o", "u",
         "d", " ", "d", "e", "p", "l", "o", "y", "m", "e", "n", "t", ".">>,
       "Mock"),
     Job("mock-3",
       <<"S", "o", "f", "t", "w", "a", "r", "e", " ", "E", "n", "g", "i", "n", "e",
         "e", "r">>,
       <<"L", "o", "o", "k", "i", "n", "g", " ", "f", "o", "r", " ", "S", "o", "f",
         "t", "w", "a", "r", "e", " ", "E", "n", "g", "i", "n", "e", "e", "r", " ",
         "w", "i", "t", "h", " ", "J", "a", "v", "a", ",", " ", "P", "y", "t", "h",
         "o", "n", ",", " ", "o", "r", " ", "C", "+", "+", " ", "e", "x", "p", "e",
         "r", "i", "e", "n", "c", "e", ".", " ", "D", "a", "t", "a", " ", "s", "t",
         "r", "u", "c", "t", "u", "r", "e", "s", " ", "a", "n", "d", " ", "a", "l",
         "g", "o", "r", "i", "t", "h", "m", "s", " ", "k", "n", "o", "w", "l", "e",
         "d", "g", "e", " ", "r", "e", "q", "u", "i", "r", "e", "d", ".">>,
       "Mock") >>

\* `analysis.foundKeywords?.bucket || []` of `resume.analysis || {}`
FoundOrEmpty(resume, bucket) ==
  IF /\ "analysis" \in DOMAIN resume
     /\ "foundKeywords" \in DOMAIN resume.analysis
     /\ bucket \in DOMAIN resume.analysis.foundKeywords
  THEN resume.analysis.foundKeywords[bucket]
  ELSE <<>>

\* variant: the certifications count as skills too
extractSkillsWithCertifications(resume) ==
  [hardSkills |-> FoundOrEmpty(resume, "hardSkills"),
   softSkills |-> FoundOrEmpty(resume, "softSkills"),
   certifications |-> FoundOrEmpty(resume, "certifications"),
   allSkills |-> FoundOrEmpty(resume, "hardSkills") \o FoundOrEmpty(resume, "softSkills")
                   \o FoundOrEmpty(resume, "certifications")]

extractSkills(resume) ==
  [hardSkills |-> FoundOrEmpty(resume, "hardSkills"),
   softSkills |-> FoundOrEmpty(resume, "softSkills"),
   certifications |-> FoundOrEmpty(resume, "certifications"),
   allSkills |-> FoundOrEmpty(resume, "hardSkills") \o FoundOrEmpty(resume, "softSkills")]

buildSearchQuery(skills) ==
  LET topSkills == SubSeq(skills.hardSkills, 1,
                          IF Len(skills.hardSkills) < 3 THEN Len(skills.hardSkills) ELSE 3)
  IN IF Len(topSkills) = 0
     THEN <<"s", "o", "f", "t", "w", "a", "r", "e", " ", "d", "e", "v", "e", "l",
           "o", "p", "e", "r">>
     ELSE JoinWords(topSkills)

\* `${job.title} ${job.description}`.toLowerCase()
JobText(job) == ToLowerCaseText(job.title \o <<" ">> \o job.description)

\* the forEach of calculateMatchScore and of findMatchedSkills: the skills,
\* in order, whose lower-cased form the job text includes
MatchedIn(jobText, skills) ==
  LET Included(skill) == IncludesText(jobText, ToLowerCaseText(skill))
  IN SelectSeq(skills, Included)

calculateMatchScore(job, userSkills) ==
  LET totalSkills == Len(userSkills.allSkills)
      matchedCount == Len(MatchedIn(JobText(job), userSkills.allSkills))
      score == IF matchedCount = 0 THEN 0
               ELSE MathRound(DoubleTimes100(DoubleDivide(matchedCount, totalSkills)))
      atLeast0 == IF score < 0 THEN 0 ELSE score
  IN IF totalSkills = 0 THEN 50
     ELSE IF atLeast0 > 100 THEN 100 ELSE atLeast0

findMatchedSkills(job, userSkills) == MatchedIn(JobText(job), userSkills.allSkills)

\* userSkills.hardSkills.filter((skill) => !matchedSkills.includes(skill))
MissingFrom(hardSkills, matchedSkills) ==
  LET NotIncluded(skill) == ~IncludesItem(matchedSkills, skill)
  IN SelectSeq(hardSkills, NotIncluded)

\* the map of matchJobsWithResume: { ...job, matchScore, matchedSkills, missingSkills }
ScoredJob(job, userSkills) ==
  [id |-> job.id, title |-> job.title, description |-> job.description,
   source |-> job.source,
   matchScore |-> calculateMatchScore(job, userSkills),
   matchedSkills |-> findMatchedSkills(job, userSkills),
   missingSkills |-> MissingFrom(userSkills.hardSkills, findMatchedSkills(job, userSkills))]

\* variant: a job goes in front of the jobs of its score
InsertBeforeEqual(job, sorted) ==
  LET before == {i \in 1..Len(sorted) : sorted[i].matchScore > job.matchScore}
  IN SubSeq(sorted, 1, Cardinality(before)) \o <<job>>
       \o SubSeq(sorted, Cardinality(before) + 1, Len(sorted))

\* Array.prototype.sort((a, b) => b.matchScore - a.matchScore) is stable: a
\* job goes behind the sorted jobs of its score or more
InsertSorted(job, sorted) ==
  LET before == {i \in 1..Len(sorted) : sorted[i].matchScore >= job.matchScore}
  IN SubSeq(sorted, 1, Cardinality(before)) \o <<job>>
       \o SubSeq(sorted, Cardinality(before) + 1, Len(sorted))

RECURSIVE SortByMatchScore(_)
SortByMatchScore(jobs) ==
  IF jobs = <<>> THEN <<>>
  ELSE InsertSorted(jobs[Len(jobs)], SortByMatchScore(SubSeq(jobs, 1, Len(jobs) - 1)))

\* the credentials of the environment: ADZUNA_APP_ID, ADZUNA_API_KEY
CredentialsAbsent(creds) ==
  creds.appId = Undefined \/ creds.appKey = Undefined \/ creds.appId = "your-app-id-here"

\* variant: the listings of the backend are returned as they are
fetchJobsFromAPIAsReturned(creds, outcome) ==
  IF CredentialsAbsent(creds) THEN GetMockJobs
  ELSE IF outcome.kind # "results" THEN GetMockJobs
  ELSE outcome.results

\* fetchJobsFromAPI: the mock catalog without credentials, when axios.get
\* throws, when the body has no results to map (a TypeError, caught) and
\* when there are zero results
fetchJobsFromAPI(creds, outcome) ==
  IF CredentialsAbsent(creds) THEN GetMockJobs
  ELSE IF outcome.kind # "results" THEN GetMockJobs
  ELSE IF Len(outcome.results) = 0 THEN GetMockJobs
  ELSE outcome.results


(***************************************************************************)
(* What matchJobsWithResume is given: the record, the credentials of the   *)
(* environment and what the job-search backend does.                       *)
(***************************************************************************)
\* the skill S01, S02, ...
NumberedSkill(i) ==
  LET Digits == <<"0", "1", "2", "3", "4", "5", "6", "7", "8", "9">>
  IN <<"S", Digits[(i \div 10) + 1], Digits[(i % 10) + 1]>>
NumberedSkills(a, b) == [i \in 1..(b - a + 1) |-> NumberedSkill(a + i - 1)]

\* a record whose analysis has these found keywords
Analysed(hardSkills, softSkills, certifications) ==
  [analysis |-> [foundKeywords |-> [hardSkills |-> hardSkills,
                                    softSkills |-> softSkills,
                                    certifications |-> certifications]]]

\* records without analysis or found keywords; records of up to two hard
\* skills, a soft skill (one of them a hard skill too) and a certification;
\* records of 0..MaxSkills numbered skills, the first half of them hard
Resumes ==
  LET React == <<"R", "e", "a", "c", "t">>
      JAVA == <<"J", "A", "V", "A">>
      Python == <<"p", "y", "t", "h", "o", "n">>
      Teamwork == <<"T", "e", "a", "m", "w", "o", "r", "k">>
      ProblemSolving ==
        <<"P", "r", "o", "b", "l", "e", "m", "-", "S", "o", "l", "v", "i", "n", "g">>
      AWS == <<"A", "W", "S">>
      HardSkillLists == UNION {[1..k -> {React, JAVA, Python}] : k \in 0..2}
      SoftSkillLists == {<<>>, <<Teamwork>>, <<ProblemSolving>>, <<React>>}
      CertificationLists == {<<>>, <<AWS>>}
  IN {[status |-> "failed"], [analysis |-> [summary |-> "none"]]}
       \cup {Analysed(h, s, c) :
               h \in HardSkillLists, s \in SoftSkillLists, c \in CertificationLists}
       \cup {Analysed(NumberedSkills(1, (t + 1) \div 2),
                      NumberedSkills((t + 1) \div 2 + 1, t), <<>>) : t \in 0..MaxSkills}

\* a listing of the backend that names the skills s01 .. sn, in lower case
\* and a space apart
NumberedJob(id, n) ==
  Job(id, <<"J", "o", "b">>,
      [i \in 1..(4 * n - (IF n = 0 THEN 0 ELSE 1)) |->
         IF i % 4 = 0 THEN " " ELSE LowerChar(NumberedSkill((i + 3) \div 4)[i % 4])],
      "Adzuna")

\* what the backend has: nothing; four listings that score 40, 90, 40, 10
\* for the record of ten numbered skills; three listings that name skills
\* and a certification; one listing of 0..MaxSkills numbered skills
ApiCatalogs ==
  LET TieCatalog ==
        <<NumberedJob("j1", 4), NumberedJob("j2", 9), NumberedJob("j3", 4),
          NumberedJob("j4", 1)>>
      NamedCatalog ==
        << Job("a1",
             <<"J", "a", "v", "a", " ", "D", "e", "v", "e", "l", "o", "p", "e", "r">>,
             <<"J", "A", "V", "A", ",", " ", "S", "p", "r", "i", "n", "g", " ", "a",
               "n", "d", " ", "A", "W", "S", ".", " ", "T", "e", "a", "m", "w", "o",
               "r", "k", ".">>,
             "Adzuna"),
           Job("a2",
             <<"F", "r", "o", "n", "t", "e", "n", "d", " ", "e", "n", "g", "i", "n",
               "e", "e", "r">>,
             <<"r", "e", "a", "c", "t", ",", " ", "h", "t", "m", "l", " ", "a", "n",
               "d", " ", "c", "s", "s">>,
             "Adzuna"),
           Job("a3",
             <<"D", "a", "t", "a", " ", "A", "n", "a", "l", "y", "s", "t">>,
             <<"P", "Y", "T", "H", "O", "N", " ", "a", "n", "d", " ", "S", "Q", "L">>,
             "Adzuna") >>
  IN {<<>>, TieCatalog, NamedCatalog} \cup {<<NumberedJob("j1", n)>> : n \in 0..MaxSkills}

\* axios.get throws; the body has no `results`; the body has results
FetchOutcomes ==
  {[kind |-> "threw", results |-> <<>>], [kind |-> "malformed", results |-> <<>>]}
    \cup {[kind |-> "results", results |-> c] : c \in ApiCatalogs}
NoOutcome == [kind |-> "none", results |-> <<>>]

Credentials ==
  {[appId |-> Undefined, appKey |-> "key"],
   [appId |-> "id", appKey |-> Undefined],
   [appId |-> "your-app-id-here", appKey |-> "key"],
   [appId |-> "id", appKey |-> "key"]}

\* no call of matchJobsWithResume yet
NoMatch ==
  [pc |-> "none", resume |-> <<>>, userSkills |-> extractSkills(<<>>), query |-> <<>>,
   creds |-> [appId |-> Undefined, appKey |-> Undefined], outcome |-> NoOutcome,
   called |-> FALSE, jobs |-> <<>>, result |-> <<>>]

\* no admin-route request yet
NoAdminRequest == [handler |-> "none", requester |-> "", role |-> "", code |-> 0]
\* the empty users collection
NoAccounts == [users |-> <<>>, tokens |-> {}, last |-> NoAdminRequest]

IdleUpload ==
  [pc |-> "idle", user |-> "", file |-> NoFileGiven,
   extractedText |-> <<>>, resumeId |-> NoId,
   analysis |-> DefaultAnalysis, status |-> "processing",
   an |-> NoCall, error |-> NoError, res |-> NoResponse]

NoGiven == [trial |-> NoError, actual |-> BackendThrew(NoError), afterFallback |-> FALSE]

Init ==
  /\ up = [u \in UploadIds |-> IdleUpload]
  /\ store = <<>>
  /\ files = {}
  /\ unlinked = {}
  /\ reply = NoReply
  /\ call = NoCall
  /\ given = NoGiven
  /\ ncalls = 0
  /\ parsed = NoParse
  /\ auth = NoAccounts
  /\ match = NoMatch

\* variant: ids are not unique
NewIdReused(u) == 1

\* variant: one record per user, shared by the uploads of that user
NewIdPerUser(u) == IF up[u].user = "alice" THEN 1 ELSE 2

\* the ObjectId the store gives the record of request u
NewId(u) == u

\* backend outcomes the upload requests are run against
UploadTrialOutcomes ==
  {NoError, <<"[429 Too Many Requests]", "429">>, <<"API key", " not valid">>}

UploadActualOutcomes ==
  {BackendThrew(<<"fetch failed">>)}
    \cup {BackendReplied(text, doc) :
            text \in {<<"DOC">>, <<Fence, "json", "\n", "DOC", "\n", Fence>>},
            doc \in {JSONObject(Num(85),
                                Section(Bucket(<<"Docker">>), Bucket(<<>>), AbsentBucket),
                                Section(Bucket(<<"React", "Node.js">>), Bucket(<<"Teamwork">>),
                                        Bucket(<<>>)),
                                TipList(<<Tip("impact", "Quantify results", "high"),
                                          Tip("style", "Use bullets", Undefined)>>),
                                "Solid resume"),
                     JSONObject(Num(150), AbsentSection, AbsentSection, TipList(<<>>), "")}}

\* the request after `res.status(code).json({... error })`: its locals are
\* gone; what it was given and what it answered stay on record
Responded(r, code, error) ==
  [r EXCEPT !.pc = "done", !.res = Response(code, error), !.error = NoError,
            !.analysis = DefaultAnalysis, !.status = "processing"]

(***************************************************************************)
(* uploadResume (resumeController.js).  Requests are numbered in the order *)
(* they arrive, and the users are named in the order of their first upload *)
(* (the handlers only ever compare user ids for equality).                 *)
(***************************************************************************)
\* the authenticated user of request u (req.user, set by `protect`)
Uploaders(u) == IF u = 1 THEN {"alice"} ELSE Users

\* multer stored the file (or the request carries none); `if (!req.file)`
Upload_Receive(u) ==
  /\ up[u].pc = "idle"
  /\ \A v \in UploadIds : v < u => up[v].pc # "idle"
  /\ \E user \in Uploaders(u), hasFile \in BOOLEAN :
       IF ~hasFile
       THEN /\ up' = [up EXCEPT ![u] = Responded([@ EXCEPT !.user = user], 400, NoError)]
            /\ UNCHANGED files
       ELSE /\ up' = [up EXCEPT ![u] = [@ EXCEPT !.pc = "parse", !.user = user]]
            /\ files' = files \cup {u}
  /\ UNCHANGED <<store, unlinked, reply, analyzeVars, parseVars, authVars, matchVars>>

\* Step 1: `await parseResume(req.file.path)`; the file has extension ext
\* and the extractor's outcome on it is ex
Upload_Parse(u) ==
  /\ up[u].pc = "parse"
  /\ \E ext \in FileExts, ex \in ExtractorOutcomes :
       LET r == parseResume(ext, ex)
       IN up' = [up EXCEPT ![u] =
                   IF r.ok THEN [@ EXCEPT !.pc = "create", !.extractedText = r.text,
                                          !.file = FileGiven(ext, ex)]
                   ELSE [@ EXCEPT !.pc = "catch", !.error = r.msg,
                                  !.file = FileGiven(ext, ex)]]
  /\ UNCHANGED <<store, files, unlinked, reply, analyzeVars, parseVars, authVars, matchVars>>

\* variant: the record is created without the extracted text
NewRecordWithoutText(u) ==
  [user |-> up[u].user,
   extractedText |-> <<>>,
   jobDescription |-> "",
   status |-> "processing",
   analysis |-> DefaultAnalysis]

\* the document Resume.create stores for request u (jobDescription || '')
NewRecord(u) ==
  [user |-> up[u].user,
   extractedText |-> up[u].extractedText,
   jobDescription |-> "",
   status |-> "processing",
   analysis |-> DefaultAnalysis]

\* Step 2: `await Resume.create({... status: 'processing'})`
Upload_Create(u) ==
  /\ up[u].pc = "create"
  /\ \E fault \in BOOLEAN :
       IF fault
       THEN /\ up' = [up EXCEPT ![u] = [@ EXCEPT !.pc = "catch", !.error = StoreErrorMsg]]
            /\ UNCHANGED store
       ELSE /\ store' = (NewId(u) :> NewRecord(u)) @@ store
            /\ up' = [up EXCEPT ![u] = [@ EXCEPT !.pc = "analyze", !.resumeId = NewId(u),
                                                  !.status = "processing",
                                                  !.analysis = DefaultAnalysis,
                                                  !.an = AnalyzeBegin]]
  /\ UNCHANGED <<files, unlinked, reply, analyzeVars, parseVars, authVars, matchVars>>

\* uploadResume after a step a of its analyzeResume call: still awaiting it;
\* or `resume.analysis = analysis; resume.status = 'completed'` and on to
\* the save; or, in catch (aiError), `resume.status = 'failed'` and on to
\* that save
AfterAnalyze(r, a) ==
  IF a.pc = "returned"
  THEN [r EXCEPT !.an = a, !.pc = "saveCompleted", !.analysis = a.value,
                 !.status = "completed"]
  ELSE IF a.pc = "threw"
  THEN [r EXCEPT !.an = a, !.pc = "saveFailed", !.error = a.error, !.status = "failed"]
  ELSE [r EXCEPT !.an = a]

\* Step 3, `await analyzeResume(extractedText, jobDescription)`: the trial call
Upload_AnalyzeTrial(u) ==
  /\ up[u].pc = "analyze" /\ up[u].an.pc = "trial"
  /\ \E thrown \in UploadTrialOutcomes :
       up' = [up EXCEPT ![u] = AfterAnalyze(@, TrialCall(up[u].an, thrown))]
  /\ UNCHANGED <<store, files, unlinked, reply, analyzeVars, parseVars, authVars, matchVars>>

\* Step 3: the actual request
Upload_AnalyzeActual(u) ==
  /\ up[u].pc = "analyze" /\ up[u].an.pc = "actual"
  /\ \E outcome \in UploadActualOutcomes :
       up' = [up EXCEPT ![u] = AfterAnalyze(@, ActualCall(up[u].an, outcome))]
  /\ UNCHANGED <<store, files, unlinked, reply, analyzeVars, parseVars, authVars, matchVars>>

(***************************************************************************)
(* `await resume.save()` of the in-memory document of request u: Mongoose  *)
(* validates the document against the schema, then updates the stored      *)
(* document by _id (and fails when there is none); the store itself may    *)
(* fail.                                                                   *)
(***************************************************************************)
SaveThrew(m) == [ok |-> FALSE, msg |-> m]
SaveDone == [ok |-> TRUE, msg |-> NoError]

SaveOutcomes(u) ==
  IF ~ValidateAnalysis(up[u].analysis) THEN {SaveThrew(ValidationErrorMsg)}
  ELSE IF up[u].resumeId \notin DOMAIN store THEN {SaveThrew(DocumentNotFoundMsg)}
  ELSE {SaveThrew(StoreErrorMsg), SaveDone}

\* variant: the save writes the status and leaves the analysis for later
SavedStatusOnly(record, resume) == [record EXCEPT !.status = resume.status]

\* the stored document after a successful save of the in-memory document
Saved(record, resume) ==
  [record EXCEPT !.analysis = CastAnalysis(resume.analysis), !.status = resume.status]

\* Step 4: `resume.analysis = analysis; resume.status = 'completed';
\* await resume.save()`; a throw is caught by catch (aiError), which sets
\* resume.status = 'failed'
Upload_SaveCompleted(u) ==
  /\ up[u].pc = "saveCompleted"
  /\ \E o \in SaveOutcomes(u) :
       IF o.ok
       THEN /\ store' = [store EXCEPT ![up[u].resumeId] = Saved(@, up[u])]
            /\ up' = [up EXCEPT ![u] = [@ EXCEPT !.pc = "unlink"]]
       ELSE /\ up' = [up EXCEPT ![u] = [@ EXCEPT !.pc = "saveFailed", !.error = o.msg,
                                                  !.status = "failed"]]
            /\ UNCHANGED store
  /\ UNCHANGED <<files, unlinked, reply, analyzeVars, parseVars, authVars, matchVars>>

\* catch (aiError): `await resume.save();
\* return res.status(500).json({... error: aiError.message })`; a throw of
\* this save reaches the outer catch
Upload_SaveFailed(u) ==
  /\ up[u].pc = "saveFailed"
  /\ \E o \in SaveOutcomes(u) :
       IF o.ok
       THEN /\ store' = [store EXCEPT ![up[u].resumeId] = Saved(@, up[u])]
            /\ up' = [up EXCEPT ![u] = Responded(@, 500, up[u].error)]
       ELSE /\ up' = [up EXCEPT ![u] = [@ EXCEPT !.pc = "catch", !.error = o.msg]]
            /\ UNCHANGED store
  /\ UNCHANGED <<files, unlinked, reply, analyzeVars, parseVars, authVars, matchVars>>

\* fs.unlink(req.file.path) inside try/catch: the file is removed unless the
\* unlink fails, which is only logged
Unlink(u, fails) ==
  /\ files' = IF fails THEN files ELSE files \ {u}
  /\ unlinked' = unlinked \cup {u}

\* Step 5 and 6: unlink the file, respond 201
Upload_Unlink(u) ==
  /\ up[u].pc = "unlink"
  /\ \E fails \in BOOLEAN : Unlink(u, fails)
  /\ up' = [up EXCEPT ![u] = Responded(@, 201, NoError)]
  /\ UNCHANGED <<store, reply, analyzeVars, parseVars, authVars, matchVars>>

\* the outer catch: unlink the file, respond 500 with error.message
Upload_Catch(u) ==
  /\ up[u].pc = "catch"
  /\ \E fails \in BOOLEAN : Unlink(u, fails)
  /\ up' = [up EXCEPT ![u] = Responded(@, 500, up[u].error)]
  /\ UNCHANGED <<store, reply, analyzeVars, parseVars, authVars, matchVars>>

(***************************************************************************)
(* The other handlers that read or delete a record by id.                  *)
(***************************************************************************)
\* a response without record data (an error, or the confirmation of a delete)
Reply(code) == [code |-> code, data |-> FALSE, matched |-> FALSE]
\* `res.status(200).json({ success: true, data: ... })`
ReplyData(matched) == [code |-> 200, data |-> TRUE, matched |-> matched]

\* variant: any authenticated user may access any record
AccessCodeAnyUser(user, id) == IF id \notin DOMAIN store THEN 404 ELSE 200

\* findById, then the ownership check shared by the three handlers
AccessCode(user, id) ==
  IF id \notin DOMAIN store THEN 404
  ELSE IF store[id].user # user THEN 403
  ELSE 200

\* getMyResumes: Resume.find({ user }); the handler responds 200
GetMyResumes(user) ==
  /\ reply' = ReplyData(FALSE)
  /\ UNCHANGED <<up, store, files, unlinked, analyzeVars, parseVars, authVars, matchVars>>

GetResumeById(user, id) ==
  /\ reply' = IF AccessCode(user, id) = 200 THEN ReplyData(FALSE)
              ELSE Reply(AccessCode(user, id))
  /\ UNCHANGED <<up, store, files, unlinked, analyzeVars, parseVars, authVars, matchVars>>

\* deleteResume: `await resume.deleteOne()` for the owner
DeleteResume(user, id) ==
  /\ reply' = Reply(AccessCode(user, id))
  /\ store' = IF AccessCode(user, id) = 200
              THEN [i \in DOMAIN store \ {id} |-> store[i]]
              ELSE store
  /\ UNCHANGED <<up, files, unlinked, analyzeVars, parseVars, authVars, matchVars>>

\* getMatchedJobsForResume: the listing is computed from the record and not
\* stored; the nested `analysis` path of a stored document is never absent
GetMatchedJobsForResume(user, id) ==
  /\ reply' = IF AccessCode(user, id) = 200 THEN ReplyData(TRUE)
              ELSE Reply(AccessCode(user, id))
  /\ UNCHANGED <<up, store, files, unlinked, analyzeVars, parseVars, authVars, matchVars>>

Next ==
  \/ \E u \in UploadIds :
       \/ Upload_Receive(u)
       \/ Upload_Parse(u)
       \/ Upload_Create(u)
       \/ Upload_AnalyzeTrial(u)
       \/ Upload_AnalyzeActual(u)
       \/ Upload_SaveCompleted(u)
       \/ Upload_SaveFailed(u)
       \/ Upload_Unlink(u)
       \/ Upload_Catch(u)
  \/ \E user \in Users :
       \/ GetMyResumes(user)
       \/ \E id \in RecordIds :
            \/ GetResumeById(user, id)
            \/ DeleteResume(user, id)
            \/ GetMatchedJobsForResume(user, id)

Spec == Init /\ [][Next]_vars

(***************************************************************************)
(* analyzeResume called MaxCalls times in a row, against every outcome of  *)
(* the backend.                                                            *)
(***************************************************************************)
AnalyzeResume_Begin ==
  /\ call.pc \in {"none", "returned", "threw"}
  /\ ncalls < MaxCalls
  /\ call' = AnalyzeBegin
  /\ given' = [NoGiven EXCEPT !.afterFallback = call.useGemma]
  /\ ncalls' = ncalls + 1
  /\ UNCHANGED <<lifecycleVars, parseVars, authVars, matchVars>>

AnalyzeResume_Trial ==
  /\ call.pc = "trial"
  /\ \E thrown \in TrialOutcomes :
       /\ call' = TrialCall(call, thrown)
       /\ given' = [given EXCEPT !.trial = thrown]
  /\ UNCHANGED <<ncalls, lifecycleVars, parseVars, authVars, matchVars>>

AnalyzeResume_Actual ==
  /\ call.pc = "actual"
  /\ \E outcome \in ActualOutcomes :
       /\ call' = ActualCall(call, outcome)
       /\ given' = [given EXCEPT !.actual = outcome]
  /\ UNCHANGED <<ncalls, lifecycleVars, parseVars, authVars, matchVars>>

NextAnalyze ==
  \/ AnalyzeResume_Begin
  \/ AnalyzeResume_Trial
  \/ AnalyzeResume_Actual

SpecAnalyze == Init /\ [][NextAnalyze]_vars

(***************************************************************************)
(* parseResume called once on its own, on a file of any extension, against *)
(* every outcome of the extractors: the raw texts of up to MaxTextLen      *)
(* characters over letters and whitespace, and the outcomes around the     *)
(* minimum length.                                                         *)
(***************************************************************************)
ParseExts == FileExts \cup {".Pdf", ".DOCX", ".TXT", ".doc", ""}

TextAlphabet == {"a", " ", "\n", "\t"}
RawTexts == UNION {[1..k -> TextAlphabet] : k \in 0..MaxTextLen}
ParseOutcomes == ExtractorOutcomes \cup {Returned(s) : s \in RawTexts}

\* parseResume(filePath) is called: `path.extname(filePath)`
ParseResume_Begin ==
  /\ parsed.pc = "none"
  /\ \E ext \in ParseExts, ex \in ParseOutcomes :
       parsed' = [NoParse EXCEPT !.pc = "switch", !.ext = ext, !.ex = ex]
  /\ UNCHANGED <<lifecycleVars, analyzeVars, authVars, matchVars>>

\* `switch (ext)`: an extractor is invoked (it reads the file), or the
\* default case throws
ParseResume_Switch ==
  /\ parsed.pc = "switch"
  /\ parsed' = IF Dispatch(parsed.ext) = "none"
               THEN [parsed EXCEPT !.pc = "threw", !.error = UnsupportedFormatMsg]
               ELSE [parsed EXCEPT !.pc = "extract", !.invoked = Dispatch(parsed.ext)]
  /\ UNCHANGED <<lifecycleVars, analyzeVars, authVars, matchVars>>

\* the awaited extractor settles; the text is normalized and measured
ParseResume_Extract ==
  /\ parsed.pc = "extract"
  /\ LET r == parseResume(parsed.ext, parsed.ex)
          extractedText == IF parsed.ex.ok THEN NormalizeText(parsed.ex.text) ELSE <<>>
     IN parsed' = IF r.ok
                  THEN [parsed EXCEPT !.pc = "returned", !.extractedText = r.text]
                  ELSE [parsed EXCEPT !.pc = "threw", !.error = r.msg,
                                      !.extractedText = extractedText]
  /\ UNCHANGED <<lifecycleVars, analyzeVars, authVars, matchVars>>

NextParse ==
  \/ ParseResume_Begin
  \/ ParseResume_Switch
  \/ ParseResume_Extract

SpecParse == Init /\ [][NextParse]_vars

(***************************************************************************)
(* Accounts and roles: authController (register, login), the admin routes  *)
(* behind protect and authorize('admin'), the promote-admin endpoint and   *)
(* the makeAdmin script.  An account is named by its email.                *)
(***************************************************************************)
Emails == {"ann@x.io", "bob@x.io", "eve@x.io"}
\* User.js: role enum
Roles == {"user", "admin"}
\* `role` of a request body: absent, a role, or something else
RoleInputs == {Undefined, "user", "admin", "owner"}

Account(role, via) == [role |-> role, via |-> via]
WithAccount(email, account) ==
  [auth EXCEPT !.users = (email :> account) @@ auth.users]
WithoutAccount(email) ==
  [auth EXCEPT !.users = [e \in DOMAIN auth.users \ {email} |-> auth.users[e]],
               !.tokens = @ \ {email}]

\* register: `role: role || 'user'`
RegisteredRole(role) == IF role = Undefined THEN "user" ELSE role

\* POST /api/auth/register (public): 400 for a known email; User.create
\* validates the role against the enum; the new user gets a token
Register(email, role) ==
  /\ auth' = IF email \in DOMAIN auth.users \/ RegisteredRole(role) \notin Roles
             THEN auth
             ELSE [WithAccount(email, Account(RegisteredRole(role), "register"))
                     EXCEPT !.tokens = @ \cup {email}]
  /\ UNCHANGED <<lifecycleVars, analyzeVars, parseVars, matchVars>>

\* POST /api/auth/login (public): a token for a known email and its password
Login(email, passwordMatches) ==
  /\ auth' = IF email \in DOMAIN auth.users /\ passwordMatches
             THEN [auth EXCEPT !.tokens = @ \cup {email}]
             ELSE auth
  /\ UNCHANGED <<lifecycleVars, analyzeVars, parseVars, matchVars>>

\* router.use(protect); router.use(authorize('admin')): 401 without a token
\* of an existing user, 403 when the stored role of that user is not admin
AdminGate(requester) ==
  IF requester \notin auth.tokens \/ requester \notin DOMAIN auth.users THEN 401
  ELSE IF auth.users[requester].role # "admin" THEN 403
  ELSE 200

\* what is on record of an admin-route request: the handler that ran, if
\* the gate let the request through, and the stored role of the requester
AdminRequest(handler, requester, code) ==
  [handler |-> IF AdminGate(requester) = 200 THEN handler ELSE "none",
   requester |-> requester,
   role |-> IF requester \in DOMAIN auth.users THEN auth.users[requester].role ELSE "",
   code |-> IF AdminGate(requester) = 200 THEN code ELSE AdminGate(requester)]

\* GET /api/admin/stats, /users, /resumes: read only
AdminRead(requester) ==
  /\ auth' = [auth EXCEPT !.last = AdminRequest("getAllUsers", requester, 200)]
  /\ UNCHANGED <<lifecycleVars, analyzeVars, parseVars, matchVars>>

\* PUT /api/admin/users/:id/role
UpdateUserRoleCode(requester, target, role) ==
  IF role \notin Roles THEN 400
  ELSE IF target = requester THEN 400
  ELSE IF target \notin DOMAIN auth.users THEN 404
  ELSE 200

UpdateUserRole(requester, target, role) ==
  LET code == UpdateUserRoleCode(requester, target, role)
      done == IF AdminGate(requester) = 200 /\ code = 200
              THEN WithAccount(target, Account(role, "updateUserRole"))
              ELSE auth
  IN /\ auth' = [done EXCEPT !.last = AdminRequest("updateUserRole", requester, code)]
     /\ UNCHANGED <<lifecycleVars, analyzeVars, parseVars, matchVars>>

\* DELETE /api/admin/users/:id: 404, 400 for the admin's own account; the
\* resumes of the user go with the user (there are none here)
DeleteUserCode(requester, target) ==
  IF target \notin DOMAIN auth.users THEN 404
  ELSE IF target = requester THEN 400
  ELSE 200

DeleteUser(requester, target) ==
  LET code == DeleteUserCode(requester, target)
      done == IF AdminGate(requester) = 200 /\ code = 200
              THEN WithoutAccount(target)
              ELSE auth
  IN /\ auth' = [done EXCEPT !.last = AdminRequest("deleteUser", requester, code)]
     /\ UNCHANGED <<lifecycleVars, analyzeVars, parseVars, matchVars>>

\* POST /api/promote-admin: `secret !== process.env.JWT_SECRET` -> 403
PromoteAdmin(email, secretMatches) ==
  /\ auth' = IF secretMatches /\ email \in DOMAIN auth.users
             THEN WithAccount(email, Account("admin", "promote-admin"))
             ELSE auth
  /\ UNCHANGED <<lifecycleVars, analyzeVars, parseVars, matchVars>>

\* scripts/makeAdmin.js <email>, run by an operator
MakeAdmin(email) ==
  /\ auth' = IF email \in DOMAIN auth.users /\ auth.users[email].role # "admin"
             THEN WithAccount(email, Account("admin", "makeAdmin"))
             ELSE auth
  /\ UNCHANGED <<lifecycleVars, analyzeVars, parseVars, matchVars>>

NextAuth ==
  \E email \in Emails :
    \/ \E role \in RoleInputs : Register(email, role)
    \/ \E passwordMatches \in BOOLEAN : Login(email, passwordMatches)
    \/ AdminRead(email)
    \/ \E target \in Emails, role \in RoleInputs : UpdateUserRole(email, target, role)
    \/ \E target \in Emails : DeleteUser(email, target)
    \/ \E secretMatches \in BOOLEAN : PromoteAdmin(email, secretMatches)
    \/ MakeAdmin(email)

SpecAuth == Init /\ [][NextAuth]_vars

(***************************************************************************)
(* matchJobsWithResume called on its own (SpecMatch).                      *)
(***************************************************************************)
\* matchJobsWithResume up to the await: extractSkills, buildSearchQuery
MatchJobs_Begin ==
  /\ match.pc = "none"
  /\ \E resume \in Resumes :
       match' = [match EXCEPT !.pc = "fetch",
                              !.resume = resume,
                              !.userSkills = extractSkills(resume),
                              !.query = buildSearchQuery(extractSkills(resume))]
  /\ UNCHANGED <<lifecycleVars, analyzeVars, parseVars, authVars>>

\* await fetchJobsFromAPI({ query, location, page }): the backend is called
\* only with credentials
MatchJobs_Fetch ==
  /\ match.pc = "fetch"
  /\ \E creds \in Credentials, outcome \in FetchOutcomes :
       /\ CredentialsAbsent(creds) => outcome.kind = "threw"
       /\ match' = [match EXCEPT !.pc = "score",
                                 !.creds = creds,
                                 !.called = ~CredentialsAbsent(creds),
                                 !.outcome = IF CredentialsAbsent(creds) THEN NoOutcome
                                             ELSE outcome,
                                 !.jobs = fetchJobsFromAPI(creds, outcome)]
  /\ UNCHANGED <<lifecycleVars, analyzeVars, parseVars, authVars>>

\* jobs.map(...), matchedJobs.sort(...), return matchedJobs
MatchJobs_Score ==
  /\ match.pc = "score"
  /\ match' = [match EXCEPT
       !.pc = "done",
       !.result = SortByMatchScore([i \in 1..Len(match.jobs) |->
                                      ScoredJob(match.jobs[i], match.userSkills)])]
  /\ UNCHANGED <<lifecycleVars, analyzeVars, parseVars, authVars>>

NextMatch == MatchJobs_Begin \/ MatchJobs_Fetch \/ MatchJobs_Score

SpecMatch == Init /\ [][NextMatch]_vars

(***************************************************************************)
(* Properties of the record lifecycle (checked under Spec).                *)
(***************************************************************************)
HasRecord(u) == up[u].resumeId # NoId /\ up[u].resumeId \in DOMAIN store
RecordOf(u) == store[up[u].resumeId]

\* C1: when an uploadResume request that created a record has sent its
\* response, that record is not in status processing any more: it is
\* completed or failed.
C1_NoResponseWhileProcessing ==
  \A u \in UploadIds :
    (up[u].pc = "done" /\ HasRecord(u)) => RecordOf(u).status \in {"completed", "failed"}

\* C2: every uploadResume request that was given a file has called fs.unlink
\* on it by the time its response is sent.
C2_UnlinkAttemptedBeforeResponse ==
  \A u \in UploadIds :
    (up[u].pc = "done" /\ up[u].res.code # 400) => u \in unlinked

\* C3: every stored record in status completed carries an analysis that is
\* valid for the schema (a numeric matchScore in 0..100, tips with a valid
\* category and priority, the keyword buckets and the tip list present) and
\* that is the analysis analyzeResume returned to the request that created
\* the record.
C3_CompletedHasAnalysis ==
  \A id \in DOMAIN store :
    store[id].status = "completed" =>
      LET a == store[id].analysis
      IN /\ a.matchScore.kind = "num"
         /\ a.matchScore.n \in ScoreMin..ScoreMax
         /\ DOMAIN a.foundKeywords = {"hardSkills", "softSkills", "certifications"}
         /\ DOMAIN a.missingKeywords = {"hardSkills", "softSkills", "certifications"}
         /\ \A i \in 1..Len(a.actionableTips) :
              /\ a.actionableTips[i].category \in ValidCategories
              /\ a.actionableTips[i].priority \in ValidPriorities
         /\ \E u \in UploadIds :
              /\ up[u].resumeId = id
              /\ up[u].an.pc = "returned"
              /\ a = CastAnalysis(up[u].an.value)

\* a completed record whose analysis came from the fallback model
C3_Witness ==
  \E u \in UploadIds :
    /\ HasRecord(u)
    /\ RecordOf(u).status = "completed"
    /\ RecordOf(u).analysis.matchScore = Num(85)
    /\ Len(RecordOf(u).analysis.actionableTips) = 2
    /\ up[u].an.useGemma

\* C4: in every step, a stored record changes its status only from
\* processing to completed or failed; a record that is completed or failed
\* is left exactly as it is or is deleted; no record's extracted text changes.
C4_TerminalIsFinal ==
  [][\A id \in DOMAIN store :
       id \in DOMAIN store' =>
         /\ store[id].status \in {"completed", "failed"} => store'[id] = store[id]
         /\ store'[id].status # store[id].status =>
              /\ store[id].status = "processing"
              /\ store'[id].status \in {"completed", "failed"}
         /\ store'[id].extractedText = store[id].extractedText
         /\ store'[id].user = store[id].user]_vars

\* a failed record of the first upload is still there after the second upload
\* completed and a request of a non-owner was answered
C4_Witness ==
  /\ 1 \in DOMAIN store /\ store[1].status = "failed"
  /\ 2 \in DOMAIN store /\ store[2].status = "completed"
  /\ up[2].pc = "done"
  /\ reply.code = 403

\* C5: whenever an upload request invokes the backend (trial call or actual
\* request), it has created its record before, and that record, unless it
\* was deleted since, is stored in status processing with the extracted text
\* of the request (at least 50 characters).
C5_RecordBeforeBackendCall ==
  [][\A u \in UploadIds :
       Len(up'[u].an.calls) > Len(up[u].an.calls) =>
         /\ up[u].resumeId # NoId
         /\ HasRecord(u) =>
              /\ RecordOf(u).status = "processing"
              /\ RecordOf(u).extractedText = up[u].extractedText
              /\ Len(RecordOf(u).extractedText) >= MinTextLength]_vars

\* both backend calls were made while the record waits in processing
C5_Witness ==
  \E u \in UploadIds :
    /\ Len(up[u].an.calls) = 2
    /\ HasRecord(u)
    /\ RecordOf(u).status = "processing"

\* the file given to request u is one text extraction fails on
ExtractionFails(u) ==
  /\ up[u].file # NoFileGiven
  /\ ~up[u].file.supported \/ up[u].file.extraction \in {"throws", "short"}

\* C6: an upload whose file has an unsupported extension, makes the
\* extractor throw, or yields fewer than 50 characters of normalized text
\* creates no record, makes no backend call, and is answered with an error.
C6_ExtractionFailureStoresNothing ==
  \A u \in UploadIds :
    ExtractionFails(u) =>
      /\ up[u].pc \in {"catch", "done"}
      /\ up[u].resumeId = NoId
      /\ NewId(u) \notin DOMAIN store
      /\ up[u].an = NoCall
      /\ up[u].pc = "done" => (up[u].res.code = 500 /\ up[u].res.error # NoError)

\* a supported file with too little text was answered with the error
C6_Witness ==
  \E u \in UploadIds :
    /\ up[u].pc = "done"
    /\ up[u].file = [supported |-> TRUE, extraction |-> "short"]
    /\ up[u].res = Response(500, TextTooShortMsg)

\* C7: when analyzeResume failed for an upload, the response is a 500 that
\* carries the message of the analysis error, and the record, unless a
\* delete request removed it, is stored in status failed.
C7_AnalysisFailureMarksFailed ==
  \A u \in UploadIds :
    (up[u].pc = "done" /\ up[u].an.pc = "threw") =>
      /\ up[u].res = Response(500, up[u].an.error)
      /\ HasRecord(u) => RecordOf(u).status = "failed"

(***************************************************************************)
(* Properties of analyzeResume (checked under SpecAnalyze).                *)
(***************************************************************************)
\* the trial call of the current call was made and threw `given.trial`
TrialThrew == Len(call.calls) >= 1 /\ given.trial # NoError
\* the message contains "429" or "quota"
QuotaSignal(msg) == Includes(msg, "429") \/ Includes(msg, "quota")
Finished == call.pc \in {"returned", "threw"}

\* replies that are one JSON value, bare or inside one code fence
ValidJSONTexts ==
  { <<"DOC">>,
    <<"\n", "DOC", "\n">>,
    <<Fence, "json", "\n", "DOC", "\n", Fence>>,
    <<Fence, "DOC", Fence>> }

\* C8: when the trial call threw a quota signal, the actual request goes to
\* the fallback model and to no other; and when the fallback's reply is
\* valid JSON, bare or fenced, analyzeResume returns a result.
C8_QuotaTrialFallsBack ==
  (TrialThrew /\ QuotaSignal(given.trial) /\ Finished) =>
    /\ call.calls = <<Call("primary", "trial"), Call("fallback", "actual")>>
    /\ (given.actual.thrown = NoError /\ given.actual.text \in ValidJSONTexts)
         => call.pc = "returned"

\* C9: when the trial call threw a message that is no quota signal,
\* analyzeResume throws that error, classified, and the trial call stays the
\* only backend call.
C9_OtherTrialErrorPropagates ==
  (TrialThrew /\ ~QuotaSignal(given.trial)) =>
    /\ call.pc = "threw"
    /\ call.calls = <<Call("primary", "trial")>>
    /\ call.error = IF Includes(given.trial, "API key") THEN AuthFailureMsg
                    ELSE IF Includes(given.trial, "RESOURCE_EXHAUSTED") THEN QuotaExceededMsg
                    ELSE <<"AI analysis failed: ">> \o given.trial

\* the trial call failed with a network error
C9_Witness ==
  /\ given.trial = <<"fetch failed">>
  /\ call.pc = "threw"
  /\ call.error = <<"AI analysis failed: ", "fetch failed">>

\* C10: every analyzeResume call, also one that follows a call which used
\* the fallback, begins with the flag off, makes the trial call on the
\* primary model as its first backend call, and sends its actual request to
\* the primary model when that trial call succeeded.
C10_FallbackNotRemembered ==
  /\ call.pc = "trial" => (call.calls = <<>> /\ ~call.useGemma)
  /\ call.pc \in {"actual", "returned"} => Len(call.calls) >= 1
  /\ Len(call.calls) >= 1 => call.calls[1] = Call("primary", "trial")
  /\ (Len(call.calls) = 2 /\ given.trial = NoError)
       => call.calls[2] = Call("primary", "actual")

\* after a call that used the fallback, a call on the primary model returned
C10_Witness ==
  /\ given.afterFallback
  /\ given.trial = NoError
  /\ call.pc = "returned"
  /\ call.calls = <<Call("primary", "trial"), Call("primary", "actual")>>

\* the actual request of the current call was answered with a reply
ReplyReceived == Finished /\ Len(call.calls) = 2 /\ given.actual.thrown = NoError
\* the call failed on JSON.parse
ParseFailed ==
  call.pc = "threw" /\ call.error = <<"AI analysis failed: ">> \o InvalidJSONMsg

\* the whole reply is one code fence
WrappedInFence(text) ==
  LET t == Trim(text) IN Len(t) >= 2 /\ t[1] = Fence /\ t[Len(t)] = Fence
\* what the fence of such a reply wraps, the json tag left out
FencedContent(text) ==
  LET t == Trim(text)
      from == IF Len(t) >= 3 /\ t[2] = "json" THEN 3 ELSE 2
  IN Trim(SubSeq(t, from, Len(t) - 1))
\* the reply is wrapped in nothing: it is a JSON text, or holds no fence
Unfenced(text) == JSONParses(text) \/ ~Includes(text, Fence)

\* C11: in fallback mode a reply that is wrapped in a code fence (with or
\* without the json tag) is parsed from what the fence wraps and an unfenced
\* reply is parsed as it is; in primary mode every reply is parsed as it is.
C11_FenceStrippingInFallbackOnly ==
  ReplyReceived =>
    LET text == given.actual.text
    IN /\ (call.useGemma /\ WrappedInFence(text))
            => (ParseFailed <=> ~JSONParses(FencedContent(text)))
       /\ (call.useGemma /\ Unfenced(text)) => (ParseFailed <=> ~JSONParses(text))
       /\ ~call.useGemma => (ParseFailed <=> ~JSONParses(text))

\* the four kinds of failure, told by the message the caller receives
IsAuthFailure(e) == e = AuthFailureMsg
IsQuotaExceeded(e) == e = QuotaExceededMsg
IsMalformedResponse(e) == e = <<"AI analysis failed: ">> \o InvalidJSONMsg
IsUnknownBackendError(e) ==
  Len(e) >= 1 /\ e[1] = "AI analysis failed: " /\ ~IsMalformedResponse(e)
KindsOf(e) ==
  {k \in {"AuthFailure", "QuotaExceeded", "MalformedResponse", "UnknownBackendError"} :
     \/ k = "AuthFailure" /\ IsAuthFailure(e)
     \/ k = "QuotaExceeded" /\ IsQuotaExceeded(e)
     \/ k = "MalformedResponse" /\ IsMalformedResponse(e)
     \/ k = "UnknownBackendError" /\ IsUnknownBackendError(e)}

\* C12: the error of every failed analyzeResume call is of exactly one of
\* the four kinds, whichever step raised it; it is a MalformedResponse
\* exactly when a reply was received and JSON.parse rejected it, and an
\* AuthFailure or QuotaExceeded only when a backend call threw.
C12_EveryFailureClassified ==
  call.pc = "threw" =>
    /\ Cardinality(KindsOf(call.error)) = 1
    /\ IsMalformedResponse(call.error) <=>
         (ReplyReceived /\ ~JSONParses(ExtractReplyText(call.useGemma, given.actual.text)))
    /\ (IsAuthFailure(call.error) \/ IsQuotaExceeded(call.error)) =>
         (TrialThrew /\ Len(call.calls) = 1) \/ given.actual.thrown # NoError

\* the actual request on the fallback model failed for quota, and a reply
\* of the fallback model was rejected by the normalization
C12_Witness ==
  /\ call.pc = "threw"
  /\ call.useGemma
  /\ \/ given.actual.thrown = <<"RESOURCE_EXHAUSTED">> /\ IsQuotaExceeded(call.error)
     \/ ReplyReceived /\ given.actual.doc = JSONNull /\ IsUnknownBackendError(call.error)

\* the text JSON.parse was given for the reply of the current call
ParsedText == ExtractReplyText(call.useGemma, given.actual.text)

\* C13 as the spec states it: when the reply is not valid JSON the call
\* fails with MalformedResponse and the error the caller receives includes
\* an excerpt of the raw reply (some part of it), never the whole of a
\* reply longer than 500 characters.
C13_MalformedErrorCarriesExcerpt ==
  (ReplyReceived /\ ~JSONParses(ParsedText)) =>
    /\ IsMalformedResponse(call.error)
    /\ \E i \in 1..Len(given.actual.text) : Includes(call.error, given.actual.text[i])

\* C13, amended: when the text given to JSON.parse is not valid JSON the
\* call fails with the fixed MalformedResponse message, which holds no part
\* of the reply; the excerpt goes to the log only, and it is the first 500
\* characters of that text at most.
C13_MalformedLogsBoundedExcerpt ==
  (ReplyReceived /\ ~JSONParses(ParsedText)) =>
    /\ call.pc = "threw"
    /\ call.error = <<"AI analysis failed: ", "AI returned invalid JSON response">>
    /\ \A i \in 1..Len(given.actual.text) : ~Includes(call.error, given.actual.text[i])
    /\ Len(call.logged) <= ExcerptLength
    /\ Len(call.logged) <= Len(ParsedText)
    /\ call.logged = SubSeq(ParsedText, 1, Len(call.logged))
    /\ Len(ParsedText) <= ExcerptLength => call.logged = ParsedText
    /\ Len(ParsedText) > ExcerptLength => Len(call.logged) = ExcerptLength

\* a reply of 501 characters was rejected and 500 of them were logged
C13_Witness ==
  /\ ReplyReceived
  /\ Len(given.actual.text) = ExcerptLength + 1
  /\ ParseFailed
  /\ Len(call.logged) = ExcerptLength

\* C14: the matchScore of every analysis analyzeResume returns is a number
\* in 0..100, and it is 0 when the reply's matchScore is absent or is a
\* non-numeric string.
C14_MatchScoreInRange ==
  call.pc = "returned" =>
    /\ call.value.matchScore.kind = "num"
    /\ call.value.matchScore.n \in ScoreMin..ScoreMax
    /\ given.actual.doc.matchScore.kind \in {"absent", "str"}
         => call.value.matchScore = Num(0)

\* the tips of the reply of the current call
TipsGiven == given.actual.doc.actionableTips.items

\* C15: when analyzeResume returns, its tips are the tips of the reply, as
\* many and in the same order (the i-th carries the i-th suggestion), each
\* with its category when that is one of the five valid ones and with
\* content otherwise, an absent category included.
C15_TipCategoryCoerced ==
  call.pc = "returned" =>
    /\ Len(call.value.actionableTips) = Len(TipsGiven)
    /\ \A i \in 1..Len(TipsGiven) :
         /\ call.value.actionableTips[i].suggestion = TipsGiven[i].suggestion
         /\ TipsGiven[i].category \in ValidCategories
              => call.value.actionableTips[i].category = TipsGiven[i].category
         /\ TipsGiven[i].category \notin ValidCategories
              => call.value.actionableTips[i].category = "content"

\* two tips came back in order: the valid category kept, the unknown one
\* replaced; and a tip without category came back as content
C15_Witness ==
  /\ call.pc = "returned"
  /\ \/ /\ Len(TipsGiven) = 2
        /\ TipsGiven[2].category = "style"
        /\ call.value.actionableTips[1].category = "impact"
        /\ call.value.actionableTips[2].category = "content"
        /\ call.value.actionableTips[2].suggestion = "Use bullets"
     \/ /\ Len(TipsGiven) = 1
        /\ TipsGiven[1].category = Undefined
        /\ call.value.actionableTips[1].category = "content"

\* C16: whenever the text given to JSON.parse is valid JSON, analyzeResume
\* returns an analysis, whatever the parsed value lacks: absent buckets come
\* back as empty lists, absent tips as the empty list, an absent summary as
\* the empty string.
C16_ParsedReplyAlwaysReturns ==
  (ReplyReceived /\ JSONParses(ParsedText)) =>
    /\ call.pc = "returned"
    /\ ~given.actual.doc.missingKeywords.present
         => call.value.missingKeywords = KeywordsOf(AbsentSection)
    /\ given.actual.doc.actionableTips.kind = "absent" => call.value.actionableTips = <<>>
    /\ given.actual.doc.summary = Undefined => call.value.aiSummary = ""

\* C17: every tip of an analysis analyzeResume returns has a priority that
\* is one of high, medium, low.
C17_TipPriorityValid ==
  call.pc = "returned" =>
    \A i \in 1..Len(call.value.actionableTips) :
      call.value.actionableTips[i].priority \in ValidPriorities

(***************************************************************************)
(* Properties of parseResume (checked under SpecParse).                    *)
(***************************************************************************)
PdfExts == {".pdf", ".PDF", ".Pdf"}
DocxExts == {".docx", ".DOCX"}
Dispatched == parsed.pc \in {"extract", "returned", "threw"}
Settled == parsed.pc \in {"returned", "threw"}

C19_TextOrClassifiedError ==
  (Settled /\ parsed.ext \in PdfExts \cup DocxExts) =>
    /\ parsed.pc = "returned" =>
         /\ parsed.ex.ok
         /\ Len(parsed.extractedText) >= MinTextLength
         /\ parsed.error = NoError
    /\ ~parsed.ex.ok =>
         /\ parsed.pc = "threw"
         /\ parsed.error =
              (IF parsed.ext \in PdfExts THEN <<"PDF parsing failed: ">>
               ELSE <<"DOCX parsing failed: ">>) \o parsed.ex.msg
    /\ (parsed.ex.ok /\ Len(parsed.extractedText) < 50) =>
         /\ parsed.pc = "threw"
         /\ parsed.error = TextTooShortMsg
    /\ (parsed.ex.ok /\ Len(parsed.extractedText) >= 50) => parsed.pc = "returned"

\* a text that normalizes to exactly 50 characters was returned
C19_Witness ==
  /\ parsed.pc = "returned"
  /\ parsed.ext \in PdfExts
  /\ Len(parsed.extractedText) = 50
  /\ Len(parsed.ex.text) > 50

\* C20: the text parseResume holds after its whitespace normalization is a
\* fixed point of the normalization, neither starts nor ends with
\* whitespace, and holds no two adjacent whitespace characters.
C20_NormalizeIdempotent ==
  (Settled /\ parsed.invoked # "none" /\ parsed.ex.ok) =>
    LET t == parsed.extractedText
    IN /\ NormalizeText(t) = t
       /\ NormalizeText(NormalizeText(parsed.ex.text)) = NormalizeText(parsed.ex.text)
       /\ t # <<>> => (~IsSpace(t[1]) /\ ~IsSpace(t[Len(t)]))
       /\ \A i \in 1..(Len(t) - 1) : ~(IsSpace(t[i]) /\ IsSpace(t[i + 1]))

\* a run of a newline and a tab between two letters became one space
C20_Witness ==
  /\ Settled
  /\ parsed.invoked = "parsePDF"
  /\ parsed.ex = Returned(<<"a", "\n", "\t", "a">>)
  /\ parsed.extractedText = <<"a", " ", "a">>

\* C26: the backend invocations of one analyzeResume call are, in order, at
\* most the trial call on the primary model and then one actual request on
\* one model; nothing is invoked twice, and a call that is over made no
\* further invocation.
C26_AtMostTwoBackendCalls ==
  /\ Len(call.calls) <= 2
  /\ Len(call.calls) >= 1 => call.calls[1] = Call("primary", "trial")
  /\ Len(call.calls) = 2 =>
       /\ call.calls[2].kind = "actual"
       /\ call.calls[2].tier = ModelTier(call.useGemma)
       /\ given.trial = NoError \/ QuotaSignal(given.trial)
  /\ (call.pc = "threw" /\ given.actual.thrown # NoError) => Len(call.calls) = 2

\* the actual request on the primary model failed for quota, and the call
\* ended after its two invocations
C26_Witness ==
  /\ call.pc = "threw"
  /\ given.trial = NoError
  /\ QuotaSignal(given.actual.thrown)
  /\ call.calls = <<Call("primary", "trial"), Call("primary", "actual")>>

\* C27: when the trial call succeeded and the actual request on the primary
\* model threw a quota signal (a message containing "429" or "quota"), the
\* call fails with QuotaExceeded and the fallback model was never invoked.
C27_FallbackOnlyByTrial ==
  (Finished /\ Len(call.calls) = 2 /\ given.trial = NoError
     /\ given.actual.thrown # NoError /\ QuotaSignal(given.actual.thrown)) =>
    /\ call.pc = "threw"
    /\ \A i \in 1..Len(call.calls) : call.calls[i].tier = "primary"
    /\ IsQuotaExceeded(call.error)

\* C28: a message thrown by the actual request, on either model, is
\* classified as QuotaExceeded exactly when it is one that makes the trial
\* call switch to the fallback (it contains "429" or "quota").
C28_SameQuotaSignal ==
  (Finished /\ Len(call.calls) = 2 /\ given.actual.thrown # NoError) =>
    (IsQuotaExceeded(call.error) <=> QuotaSignal(given.actual.thrown))

\* C25: in every step, a stored record that changes is changed by the save
\* of the one upload request that created it, to the status and analysis of
\* that request, while every other request stands still; and a record that
\* appears is the new record of the request that is at its create step.  So
\* no request writes the status, analysis or text of another's record.
C25_OnlyCreatorWrites ==
  [][\A id \in DOMAIN store' :
       /\ (id \in DOMAIN store /\ store'[id] # store[id]) =>
            \E u \in UploadIds :
              /\ up[u].resumeId = id
              /\ up[u].pc \in {"saveCompleted", "saveFailed"}
              /\ \A v \in UploadIds \ {u} : up[v].resumeId # id /\ up'[v] = up[v]
              /\ store'[id] = [store[id] EXCEPT !.status = up[u].status,
                                                !.analysis = CastAnalysis(up[u].analysis)]
       /\ id \notin DOMAIN store =>
            \E u \in UploadIds :
              /\ up[u].pc = "create"
              /\ up'[u].resumeId = id
              /\ \A v \in UploadIds \ {u} : up[v].resumeId # id /\ up'[v] = up[v]]_vars

\* two uploads of one user ran concurrently: the second has failed and
\* answered while the first still awaits its analysis, its record untouched
C25_Witness ==
  /\ up[1].user = up[2].user
  /\ up[1].pc = "analyze"
  /\ 1 \in DOMAIN store /\ store[1] = NewRecord(1)
  /\ up[2].pc = "done"
  /\ 2 \in DOMAIN store /\ store[2].status = "failed"

\* C29: every step in which getResumeById, deleteResume or
\* getMatchedJobsForResume serves a requester who is not the owner of the
\* record it names answers 403, with no record data and without matching,
\* and leaves the record store as it is.
C29_OwnerOnlyAccess ==
  [][\A user \in Users, id \in RecordIds :
       (/\ id \in DOMAIN store
        /\ store[id].user # user
        /\ \/ GetResumeById(user, id)
           \/ DeleteResume(user, id)
           \/ GetMatchedJobsForResume(user, id)) =>
         /\ reply' = [code |-> 403, data |-> FALSE, matched |-> FALSE]
         /\ store' = store]_vars

\* a request for the completed record of alice was refused; the record is
\* still there
C29_Witness ==
  /\ reply.code = 403
  /\ ~reply.data
  /\ 1 \in DOMAIN store
  /\ store[1].user = "alice"
  /\ store[1].status = "completed"

(***************************************************************************)
(* Properties of the accounts (checked under SpecAuth).                    *)
(***************************************************************************)
\* C30: an account whose role was set by register has role user, so every
\* admin holds the role through updateUserRole, the promote-admin endpoint
\* or the makeAdmin script; and a handler of an admin route ran only for a
\* requester whose stored role was admin.
C30_AdminOnlyByGrant ==
  /\ \A e \in DOMAIN auth.users :
       /\ auth.users[e].via = "register" => auth.users[e].role = "user"
       /\ auth.users[e].role = "admin"
            => auth.users[e].via \in {"updateUserRole", "promote-admin", "makeAdmin"}
  /\ auth.last.handler # "none" => auth.last.role = "admin"

(***************************************************************************)
(* Properties of job matching (checked under SpecMatch).                   *)
(***************************************************************************)
MatchDone == match.pc = "done"
GivenHardSkills == FoundOrEmpty(match.resume, "hardSkills")
GivenSoftSkills == FoundOrEmpty(match.resume, "softSkills")
GivenAllSkills == GivenHardSkills \o GivenSoftSkills

\* the skill occurs in the title plus description, whatever the case of the
\* letters
ContainedIn(skill, job) ==
  LET text == job.title \o <<" ">> \o job.description
  IN \E o \in 0..(Len(text) - Len(skill)) :
       \A j \in 1..Len(skill) : LowerChar(text[o + j]) = LowerChar(skill[j])

MatchedCount(job) ==
  Cardinality({k \in 1..Len(GivenAllSkills) : ContainedIn(GivenAllSkills[k], job)})

\* 100 * m / t rounded to the nearest integer, a half up
RoundedShare(m, t) == (200 * m + t) \div (2 * t)

\* C21: the matchScore of every scored listing is an integer of 0..100: 50
\* when the record has no skills, else 100 * matchedCount / totalSkillCount
\* rounded, matchedCount counting every entry of allSkills contained in the
\* title plus description.
C21_ScoreIsRoundedShare ==
  MatchDone =>
    \A i \in 1..Len(match.result) :
      LET job == match.result[i]
          t == Len(GivenAllSkills)
      IN /\ job.matchScore \in 0..100
         /\ t = 0 => job.matchScore = 50
         /\ t > 0 => job.matchScore = RoundedShare(MatchedCount(job), t)

Range(list) == {list[i] : i \in 1..Len(list)}

\* C22: matchedSkills of a scored listing is allSkills (hard skills, then
\* soft skills, no certifications) restricted, in order, to the skills the
\* listing contains; missingSkills is hardSkills restricted to those not in
\* matchedSkills, so no soft-only skill is missing; a record without
\* analysis has empty skill lists.
C22_MatchedAndMissingSkills ==
  MatchDone =>
    /\ "analysis" \notin DOMAIN match.resume =>
         /\ match.userSkills.hardSkills = <<>>
         /\ match.userSkills.softSkills = <<>>
         /\ match.userSkills.allSkills = <<>>
    /\ \A i \in 1..Len(match.result) :
         LET job == match.result[i]
             Contained(skill) == ContainedIn(skill, job)
             NotMatched(skill) == skill \notin Range(job.matchedSkills)
         IN /\ job.matchedSkills = SelectSeq(GivenAllSkills, Contained)
            /\ job.missingSkills = SelectSeq(GivenHardSkills, NotMatched)
            /\ \A s \in Range(GivenSoftSkills) \ Range(GivenHardSkills) :
                 s \notin Range(job.missingSkills)

\* a listing with a matched skill, a missing hard skill, a soft skill that
\* is not contained, and a certification that is
C22_Witness ==
  /\ MatchDone
  /\ \E i \in 1..Len(match.result) :
       /\ match.result[i].matchedSkills # <<>>
       /\ match.result[i].missingSkills # <<>>
       /\ \E s \in Range(GivenSoftSkills) \ Range(GivenHardSkills) :
            ~ContainedIn(s, match.result[i])
       /\ \E c \in Range(FoundOrEmpty(match.resume, "certifications")) :
            ContainedIn(c, match.result[i])

PositionOf(id) == CHOOSE p \in 1..Len(match.jobs) : match.jobs[p].id = id

\* C23: the result is the scored listings of the source, rearranged by
\* descending matchScore, listings of equal matchScore in the order of the
\* source.
C23_RankedByScoreStable ==
  MatchDone =>
    /\ Len(match.result) = Len(match.jobs)
    /\ \A p \in 1..Len(match.jobs) :
         \E i \in 1..Len(match.result) :
           match.result[i] = ScoredJob(match.jobs[p], match.userSkills)
    /\ \A i, j \in 1..Len(match.result) :
         i < j =>
           \/ match.result[i].matchScore > match.result[j].matchScore
           \/ /\ match.result[i].matchScore = match.result[j].matchScore
              /\ PositionOf(match.result[i].id) < PositionOf(match.result[j].id)

\* scores 40, 90, 40, 10 in the order of the source, 90, 40, 40, 10 in the
\* result, the first 40 of the source first
C23_Witness ==
  /\ MatchDone
  /\ [i \in 1..Len(match.jobs) |-> calculateMatchScore(match.jobs[i], match.userSkills)]
       = <<40, 90, 40, 10>>
  /\ [i \in 1..Len(match.result) |-> match.result[i].matchScore] = <<90, 40, 40, 10>>
  /\ [i \in 1..Len(match.result) |-> match.result[i].id] = <<"j2", "j1", "j3", "j4">>

\* C24: fetchJobsFromAPI always yields listings: without credentials the
\* backend is not called and the mock catalog is taken; the mock catalog is
\* taken too when the call throws or has zero results; then the result of
\* matchJobsWithResume is these listings, scored.
C24_FetchFallsBackToMock ==
  match.pc \in {"score", "done"} =>
    /\ Len(match.jobs) > 0
    /\ CredentialsAbsent(match.creds) => ~match.called /\ match.jobs = GetMockJobs
    /\ (match.called /\ match.outcome.kind = "threw") => match.jobs = GetMockJobs
    /\ (match.called /\ match.outcome.kind = "results" /\ match.outcome.results = <<>>)
         => match.jobs = GetMockJobs
    /\ MatchDone =>
         /\ Len(match.result) = Len(match.jobs)
         /\ \A i \in 1..Len(match.result) : match.result[i].matchScore \in 0..100

\* the three cases, each with the three mock listings scored
C24_WitnessNoCredentials ==
  MatchDone /\ ~match.called /\ Len(match.result) = 3
C24_WitnessThrew ==
  MatchDone /\ match.called /\ match.outcome.kind = "threw" /\ Len(match.result) = 3
C24_Witness ==
  /\ MatchDone /\ match.called
  /\ match.outcome.kind = "results" /\ match.outcome.results = <<>>
  /\ [i \in 1..3 |-> match.result[i].source] = <<"Mock", "Mock", "Mock">>

====
